---- MODULE Spec2Model ----
(***************************************************************************)
(* Model of main() of sqlsmith.cc: option handling, schema construction,   *)
(* logger set-up, the dry-run loop, and the execute loop with its          *)
(* classification of dut::failure / dut::broken and the recovery sleep.    *)
(* The SIGINT handler cerr_log_handler is an asynchronous action.          *)
(***************************************************************************)
EXTENDS Integers, Sequences, FiniteSets, TLC

(* ---- bounds of the model ---- *)
MaxQueries == 2      \* largest --max-queries value explored
MaxBroken == 2       \* dut::broken failures the target may raise in a run
MaxFailures == 1     \* statement-level dut::failure the target may raise
MaxLogFaults == 1    \* logger hook calls that may throw in a run
NumStmts == 1        \* distinct statements statement_factory may return
MaxDepth == 2        \* largest configured maximum depth of a construction

NoCeiling == 0 - 1   \* options.count("max-queries") = 0
BadNumber == 0 - 2   \* an option value that stol rejects
Running == 0 - 1     \* main has not returned
CountCap == MaxQueries + 2   \* history counters saturate here

Stmts == 1..NumStmts

VARIABLES
  pc,                \* position of main
  options,           \* the parsed option map (fixed after parsing)
  schema,            \* "none" | "loaded"
  scope,             \* "empty" | "filled"
  queries_generated, \* long queries_generated
  loggers,           \* vector<shared_ptr<logger>>
  global_cerr_logger,\* TRUE iff the global pointer is non-null
  handler,           \* TRUE iff cerr_log_handler is installed for SIGINT
  dut,               \* 0 = null pointer, else the id of the session object
  gen,               \* the statement of the current iteration, 0 = none
  li,                \* index of the range-for over loggers
  exc,               \* exception in flight/caught: "none"|"failure"|"broken"
  notified,          \* per hook, the loggers whose hook was called for gen
  exit_status,       \* Running, or the status main returned / exit() got
  exit_cause,        \* why and at which position the process ended
  calm,              \* TRUE once the environment injects no more faults
  hist,              \* history of the run (counts of observable events)
  starttime,         \* clock_t starttime: 0, or the statement it was read for
  tested,            \* calls of dut->test made with the text of gen
  files,             \* ssquery.log, allqueries.log and ssquery.current
  build              \* the construction statement_factory is carrying out

vars == <<pc, options, schema, scope, queries_generated, loggers,
          global_cerr_logger, handler, dut, gen, li, exc, notified,
          exit_status, exit_cause, calm, hist, starttime, tested, files,
          build>>

\* what Setup builds and nothing changes afterwards
setupv == <<schema, scope, loggers, global_cerr_logger, handler>>
\* the locals of one loop iteration
iterv == <<gen, li, exc, notified, starttime, tested>>
exitv == <<exit_status, exit_cause>>

Sat(n) == IF n < CountCap THEN n + 1 ELSE CountCap

NoNotes == [generated |-> {}, executed |-> {}, error |-> {}]

OptionSets ==
  [help : BOOLEAN, dryrun : BOOLEAN, verbose : BOOLEAN, logto : BOOLEAN,
   dump : BOOLEAN, badseed : BOOLEAN,
   maxq : {NoCeiling, BadNumber} \cup (0..MaxQueries)]

\* the three files of execute mode, as sequences of entries; an entry names
\* the statement by its number in the run and carries its text
NoFiles == [open |-> FALSE, allqueries |-> <<>>, qrylog |-> <<>>,
            qrycur |-> <<>>]

\* no construction is going on: no production is open and no nested scope
\* is entered
Idle == [maxdepth |-> 0, stack |-> <<>>, chain |-> <<>>, aborted |-> FALSE,
         deepest |-> 0]

Hist0 ==
  [built |-> 0,      \* statements statement_factory returned
   tests |-> 0,      \* calls of dut->test
   okays |-> 0,      \* calls of dut->test that returned
   failed |-> 0,     \* statement-level dut::failure raised by dut->test
   raised |-> 0,     \* dut::broken raised by dut->test
   backoffs |-> 0,   \* recovery sleeps completed
   reports |-> 0,    \* calls of cerr_logger::report
   thrown |-> 0,     \* logger hook calls that threw a runtime_error
   diags |-> 0,      \* "log failed" lines written to cerr
   dutmade |-> 0,    \* dut objects constructed
   outcomes |-> 0,   \* calls of an executed or error hook
   brokenOn |-> {},  \* dut objects that reported dut::broken
   failedOn |-> {}   \* the statements, of the first MaxQueries, whose
                     \* dut->test call threw
  ]

Init ==
  /\ pc = "options"
  /\ options \in OptionSets
  /\ schema = "none"
  /\ scope = "empty"
  /\ queries_generated = 0
  /\ loggers = <<>>
  /\ global_cerr_logger = FALSE
  /\ handler = FALSE
  /\ dut = 0
  /\ gen = 0
  /\ li = 0
  /\ exc = "none"
  /\ notified = NoNotes
  /\ exit_status = Running
  /\ exit_cause = [why |-> "none", at |-> "none"]
  /\ calm \in BOOLEAN
  /\ hist = Hist0
  /\ starttime = 0
  /\ tested = 0
  /\ files = NoFiles
  /\ build = Idle

\* main returns st, or exit(st) is called
Exit(st, cause) ==
  /\ pc' = "exited"
  /\ exit_status' = st
  /\ exit_cause' = [why |-> cause, at |-> pc]

\* main goes on at position l
Goto(l) ==
  /\ pc' = l
  /\ UNCHANGED exitv

\* the catch (const exception &e) of main: print e.what(), return 1
CatchException(cause) == Exit(1, cause)

\* lines 77-95: --help and --version return 0 before anything is built
ParseOptions ==
  /\ pc = "options"
  /\ IF options.help THEN Exit(0, "help") ELSE Goto("schema")
  /\ UNCHANGED <<options, setupv, queries_generated, dut, iterv, calm, hist,
                 files, build>>

\* lines 99-118: make_shared<schema_...>(connstr) returns
SchemaLoad ==
  /\ pc = "schema"
  /\ schema' = "loaded"
  /\ Goto("setup")
  /\ UNCHANGED <<options, scope, loggers, global_cerr_logger, handler,
                 queries_generated, dut, iterv, calm, hist,
                 files, build>>

\* a schema failure that is swallowed
SchemaFailSwallowed ==
  /\ pc = "schema"
  /\ Goto("setup")
  /\ UNCHANGED <<options, setupv, queries_generated, dut, iterv, calm, hist,
                 files, build>>

\* lines 99-118 with 245-248: the schema constructor throws
SchemaFail ==
  /\ pc = "schema"
  /\ CatchException("schema")
  /\ UNCHANGED <<options, setupv, queries_generated, dut, iterv, calm, hist,
                 files, build>>

\* lines 127-144: the logger vector, in push_back order
LoggersOf(o) ==
  <<"impedance">>
    \o (IF o.logto THEN <<"pqxx">> ELSE <<>>)
    \o (IF o.verbose THEN <<"cerr">> ELSE <<>>)
    \o (IF o.dump THEN <<"ast">> ELSE <<>>)

\* lines 121-148: scope, counter, loggers, SIGINT handler, seed, mode
Setup ==
  /\ pc = "setup"
  /\ ~options.badseed
  /\ scope' = "filled"
  /\ queries_generated' = 0
  /\ loggers' = LoggersOf(options)
  /\ global_cerr_logger' = options.verbose
  /\ handler' = options.verbose
  /\ Goto(IF options.dryrun THEN "dry_factory" ELSE "dut")
  /\ UNCHANGED <<options, schema, dut, iterv, calm, hist,
                 files, build>>

\* lines 121-146 with 245-248: stoi(options["seed"]) throws after the
\* loggers were made and the handler installed
SetupFail ==
  /\ pc = "setup"
  /\ options.badseed
  /\ scope' = "filled"
  /\ queries_generated' = 0
  /\ loggers' = LoggersOf(options)
  /\ global_cerr_logger' = options.verbose
  /\ handler' = options.verbose
  /\ CatchException("option")
  /\ UNCHANGED <<options, schema, dut, iterv, calm, hist, files, build>>

AllLoggers == 1..Len(loggers)

\* a logger hook may throw a runtime_error instead of returning
HookThrows == ~calm /\ hist.thrown < MaxLogFaults

\* ---- dry-run loop, lines 148-161 ----

\* line 150: statement_factory(&scope) returns an AST
DryFactory ==
  /\ pc = "dry_factory"
  /\ build.stack = <<>>
  /\ \E g \in Stmts : gen' = g
  /\ notified' = NoNotes
  /\ hist' = [hist EXCEPT !.built = Sat(@)]
  /\ Goto("dry_out")
  /\ UNCHANGED <<options, setupv, queries_generated, dut, li, exc, calm,
                 starttime, tested, files, build>>

\* line 151: gen->out(cout)
DryOut ==
  /\ pc = "dry_out"
  /\ li' = 1
  /\ Goto("dry_generated")
  /\ UNCHANGED <<options, setupv, queries_generated, dut, gen, exc,
                 notified, calm, hist,
                 starttime, tested, files, build>>

\* lines 152-153: the generated hook of logger li returns
DryGenerated ==
  /\ pc = "dry_generated"
  /\ li <= Len(loggers)
  /\ notified' = [notified EXCEPT !.generated = @ \cup {li}]
  /\ li' = li + 1
  /\ UNCHANGED <<pc, exitv, options, setupv, queries_generated, dut, gen,
                 exc, calm, hist,
                 starttime, tested, files, build>>

\* lines 152-153 with 245-248: the generated hook throws, nothing catches it
DryGeneratedThrows ==
  /\ pc = "dry_generated"
  /\ li <= Len(loggers)
  /\ HookThrows
  /\ hist' = [hist EXCEPT !.thrown = @ + 1]
  /\ notified' = [notified EXCEPT !.generated = @ \cup {li}]
  /\ CatchException("logger")
  /\ UNCHANGED <<options, setupv, queries_generated, dut, gen, li, exc, calm,
                 starttime, tested, files, build>>

\* line 158: queries_generated >= stol(options["max-queries"])
DryCeilingReached(q, n) == q >= n

\* a dry-run loop left by break, falling through to the dut construction
DryCeilingBreak == Goto("dut")

\* where the dry-run loop goes when its ceiling test succeeds: return 0
DryCeilingExit == Exit(0, "ceiling")

\* lines 154-160: terminator, count, ceiling test
DryCount ==
  /\ pc = "dry_generated"
  /\ li > Len(loggers)
  /\ queries_generated' = Sat(queries_generated)
  /\ IF options.maxq = NoCeiling
       THEN Goto("dry_factory")
       ELSE IF options.maxq = BadNumber
         THEN CatchException("option")
         ELSE IF DryCeilingReached(queries_generated', options.maxq)
           THEN DryCeilingExit
           ELSE Goto("dry_factory")
  /\ UNCHANGED <<options, setupv, dut, iterv, calm, hist,
                 files, build>>

\* ---- execute mode, lines 163-241 ----

\* lines 163-181: the dut object is constructed, the two logs are opened
DutMake ==
  /\ pc = "dut"
  /\ dut' = hist.dutmade + 1
  /\ hist' = [hist EXCEPT !.dutmade = @ + 1]
  /\ files' = [NoFiles EXCEPT !.open = TRUE]
  /\ Goto("check")
  /\ UNCHANGED <<options, setupv, queries_generated, iterv, calm, build>>

\* lines 163-178 with 245-248: the dut constructor throws
DutFail ==
  /\ pc = "dut"
  /\ CatchException("dut")
  /\ UNCHANGED <<options, setupv, queries_generated, dut, iterv, calm, hist,
                 files, build>>

\* the ceiling test with >= in place of >
CeilingReachedOffByOne(q, n) == q >= n

\* line 188: ++queries_generated > stol(options["max-queries"])
CeilingReached(q, n) == q > n

\* lines 187-196: the ceiling test; past it statement_factory is entered
Check ==
  /\ pc = "check"
  /\ IF options.maxq = NoCeiling
       THEN /\ Goto("factory")
            /\ UNCHANGED <<queries_generated, hist>>
       ELSE /\ queries_generated' = queries_generated + 1
            /\ IF options.maxq = BadNumber
                 THEN /\ CatchException("option")
                      /\ UNCHANGED hist
                 ELSE IF CeilingReached(queries_generated', options.maxq)
                   THEN /\ Exit(0, "ceiling")
                        /\ hist' = [hist EXCEPT !.reports =
                                     IF global_cerr_logger THEN @ + 1 ELSE @]
                   ELSE /\ Goto("factory")
                        /\ UNCHANGED hist
  /\ gen' = 0
  /\ notified' = NoNotes
  /\ exc' = "none"
  /\ starttime' = 0
  /\ tested' = 0
  /\ UNCHANGED <<options, setupv, dut, li, calm, files, build>>

\* line 196: statement_factory(&scope) returns an AST
Factory ==
  /\ pc = "factory"
  /\ build.stack = <<>>
  /\ \E g \in Stmts : gen' = g
  /\ li' = 1
  /\ hist' = [hist EXCEPT !.built = Sat(@)]
  /\ Goto("generated")
  /\ UNCHANGED <<options, setupv, queries_generated, dut, exc, notified, calm,
                 starttime, tested, files, build>>

\* lines 198-199: the generated hook of logger li returns
Generated ==
  /\ pc = "generated"
  /\ li <= Len(loggers)
  /\ notified' = [notified EXCEPT !.generated = @ \cup {li}]
  /\ li' = li + 1
  /\ UNCHANGED <<pc, exitv, options, setupv, queries_generated, dut, gen,
                 exc, calm, hist,
                 starttime, tested, files, build>>

\* what happens to the runtime_error of a generated/executed hook:
\* no handler but the catch (const exception &) of main
HookEscapes == CatchException("logger")

\* lines 198-199 with 245-248: the generated hook of logger li throws
GeneratedThrows ==
  /\ pc = "generated"
  /\ li <= Len(loggers)
  /\ HookThrows
  /\ hist' = [hist EXCEPT !.thrown = @ + 1]
  /\ notified' = [notified EXCEPT !.generated = @ \cup {li}]
  /\ HookEscapes
  /\ UNCHANGED <<options, setupv, queries_generated, dut, gen, li, exc, calm,
                 starttime, tested, files, build>>

\* the statements whose dut->test call threw, with the current one
Failing == IF hist.built <= MaxQueries THEN hist.failedOn \cup {hist.built}
           ELSE hist.failedOn

\* the entry that s.str() of the current statement makes in a file: the
\* statement is named by its ordinal in the run, its text is that of gen
Entry == [n |-> hist.built]

\* a file after one more entry; the model keeps the entries of the first
\* MaxQueries statements of a run
Logged(file, e) == IF e.n <= MaxQueries THEN Append(file, e) ELSE file

\* lines 198-203: the range-for ends, gen->out(s) is entered
GeneratedDone ==
  /\ pc = "generated"
  /\ li > Len(loggers)
  /\ Goto("render")
  /\ UNCHANGED <<options, setupv, queries_generated, dut, iterv, calm, hist,
                 files, build>>

\* a statement written to ssquery.log as soon as it is rendered
RenderLogsEarly ==
  /\ pc = "render"
  /\ hist' = [hist EXCEPT !.tests = Sat(@)]
  /\ files' = [files EXCEPT !.allqueries = Logged(@, Entry),
                            !.qrycur = <<Entry>>,
                            !.qrylog = Logged(@, [n |-> Entry.n,
                                                  timing |-> hist.built])]
  /\ starttime' = hist.built
  /\ tested' = tested + 1
  /\ Goto("test")
  /\ UNCHANGED <<options, setupv, queries_generated, dut, gen, li, exc,
                 notified, calm, build>>

\* lines 203-215: text rendered, logged to allqueries.log, written to
\* ssquery.current, clock read, dut->test(s.str()) entered
Render ==
  /\ pc = "render"
  /\ hist' = [hist EXCEPT !.tests = Sat(@)]
  /\ files' = [files EXCEPT !.allqueries = Logged(@, Entry),
                            !.qrycur = <<Entry>>]
  /\ starttime' = hist.built
  /\ tested' = tested + 1
  /\ Goto("test")
  /\ UNCHANGED <<options, setupv, queries_generated, dut, gen, li, exc,
                 notified, calm, build>>

\* line 215: dut->test returns
TestOk ==
  /\ pc = "test"
  /\ li' = 1
  /\ hist' = [hist EXCEPT !.okays = Sat(@)]
  /\ Goto("executed")
  /\ UNCHANGED <<options, setupv, queries_generated, dut, gen, exc,
                 notified, calm,
                 starttime, tested, files, build>>

\* a statement failure that ends the iteration with no error hook called
TestFailsSilently ==
  /\ pc = "test"
  /\ ~calm
  /\ hist.failed < MaxFailures
  /\ exc' = "failure"
  /\ li' = 1
  /\ hist' = [hist EXCEPT !.failed = @ + 1, !.failedOn = Failing]
  /\ pc' = "check"
  /\ UNCHANGED <<exitv, options, setupv, queries_generated, dut, gen,
                 notified, calm,
                 starttime, tested, files, build>>

\* lines 215, 222: dut->test throws a dut::failure that is not a dut::broken
TestFails ==
  /\ pc = "test"
  /\ ~calm
  /\ hist.failed < MaxFailures
  /\ exc' = "failure"
  /\ li' = 1
  /\ hist' = [hist EXCEPT !.failed = @ + 1, !.failedOn = Failing]
  /\ pc' = "error"
  /\ UNCHANGED <<exitv, options, setupv, queries_generated, dut, gen,
                 notified, calm,
                 starttime, tested, files, build>>

\* a dut::broken that goes to the outer catch past the error hooks
TestBrokenSkipsHooks ==
  /\ pc = "test"
  /\ ~calm
  /\ hist.raised < MaxBroken
  /\ exc' = "broken"
  /\ li' = 1
  /\ hist' = [hist EXCEPT !.raised = @ + 1, !.brokenOn = @ \cup {dut},
                          !.failedOn = Failing]
  /\ pc' = "sleep"
  /\ UNCHANGED <<exitv, options, setupv, queries_generated, dut, gen,
                 notified, calm,
                 starttime, tested, files, build>>

\* lines 215, 222: dut->test throws dut::broken
TestBroken ==
  /\ pc = "test"
  /\ ~calm
  /\ hist.raised < MaxBroken
  /\ exc' = "broken"
  /\ li' = 1
  /\ hist' = [hist EXCEPT !.raised = @ + 1, !.brokenOn = @ \cup {dut},
                          !.failedOn = Failing]
  /\ pc' = "error"
  /\ UNCHANGED <<exitv, options, setupv, queries_generated, dut, gen,
                 notified, calm,
                 starttime, tested, files, build>>

\* lines 216-219: the executed hook of logger li returns
Executed ==
  /\ pc = "executed"
  /\ li <= Len(loggers)
  /\ notified' = [notified EXCEPT !.executed = @ \cup {li}]
  /\ li' = li + 1
  /\ hist' = [hist EXCEPT !.outcomes = Sat(@)]
  /\ UNCHANGED <<pc, exitv, options, setupv, queries_generated, dut, gen,
                 exc, calm,
                 starttime, tested, files, build>>

\* lines 216-219 with 245-248: the executed hook of logger li throws
ExecutedThrows ==
  /\ pc = "executed"
  /\ li <= Len(loggers)
  /\ HookThrows
  /\ notified' = [notified EXCEPT !.executed = @ \cup {li}]
  /\ hist' = [hist EXCEPT !.thrown = @ + 1, !.outcomes = Sat(@)]
  /\ HookEscapes
  /\ UNCHANGED <<options, setupv, queries_generated, dut, gen, li, exc, calm,
                 starttime, tested, files, build>>

\* the statement appended to ssquery.log without its elapsed time
LogExecutedUntimed ==
  /\ pc = "executed"
  /\ li > Len(loggers)
  /\ files' = [files EXCEPT !.qrylog =
                 Logged(@, [n |-> Entry.n, timing |-> 0])]
  /\ Goto("check")
  /\ UNCHANGED <<options, setupv, queries_generated, dut, iterv, calm, hist,
                 build>>

\* lines 220-221: timing and statement appended to ssquery.log; next round
LogExecuted ==
  /\ pc = "executed"
  /\ li > Len(loggers)
  /\ files' = [files EXCEPT !.qrylog =
                 Logged(@, [n |-> Entry.n, timing |-> starttime])]
  /\ Goto("check")
  /\ UNCHANGED <<options, setupv, queries_generated, dut, iterv, calm, hist,
                 build>>

\* lines 223-225: the error hook of logger li returns
ErrorHook ==
  /\ pc = "error"
  /\ li <= Len(loggers)
  /\ notified' = [notified EXCEPT !.error = @ \cup {li}]
  /\ li' = li + 1
  /\ hist' = [hist EXCEPT !.outcomes = Sat(@)]
  /\ UNCHANGED <<pc, exitv, options, setupv, queries_generated, dut, gen,
                 exc, calm,
                 starttime, tested, files, build>>

\* an error hook whose runtime_error is not caught
ErrorHookEscapes ==
  /\ pc = "error"
  /\ li <= Len(loggers)
  /\ HookThrows
  /\ notified' = [notified EXCEPT !.error = @ \cup {li}]
  /\ hist' = [hist EXCEPT !.thrown = @ + 1, !.outcomes = Sat(@)]
  /\ CatchException("logger")
  /\ UNCHANGED <<options, setupv, queries_generated, dut, gen, li, exc, calm,
                 starttime, tested, files, build>>

\* lines 224-229: the error hook of logger li throws a runtime_error, which
\* is caught and printed to cerr; the range-for goes on
ErrorHookThrows ==
  /\ pc = "error"
  /\ li <= Len(loggers)
  /\ HookThrows
  /\ notified' = [notified EXCEPT !.error = @ \cup {li}]
  /\ li' = li + 1
  /\ hist' = [hist EXCEPT !.thrown = @ + 1, !.diags = @ + 1,
                          !.outcomes = Sat(@)]
  /\ UNCHANGED <<pc, exitv, options, setupv, queries_generated, dut, gen,
                 exc, calm,
                 starttime, tested, files, build>>

\* every dut::failure taken for a broken session
IsBrokenAnyFailure(e) == e \in {"failure", "broken"}

\* line 230: dynamic_cast<const dut::broken *>(&e)
IsBroken(e) == e = "broken"

\* a recovery that gives up on the second dut::broken
RethrowGivesUp ==
  /\ pc = "error"
  /\ li > Len(loggers)
  /\ IF IsBroken(exc)
       THEN IF hist.raised > 1 THEN CatchException("broken") ELSE Goto("sleep")
       ELSE Goto("check")
  /\ UNCHANGED <<options, setupv, queries_generated, dut, iterv, calm, hist,
                 files, build>>

\* lines 230-237: a dut::broken is re-thrown and caught by the outer loop,
\* any other dut::failure ends the iteration
Rethrow ==
  /\ pc = "error"
  /\ li > Len(loggers)
  /\ Goto(IF IsBroken(exc) THEN "sleep" ELSE "check")
  /\ UNCHANGED <<options, setupv, queries_generated, dut, iterv, calm, hist,
                 files, build>>

\* a recovery that leaves the outer loop after the sleep
AfterSleepReturns == Exit(0, "sleep")

\* where main is after this_thread::sleep_for: at the top of while (1)
AfterSleep == Goto("check")

\* a recovery that opens the two log files again, which truncates them
SleepReopensLogs ==
  /\ pc = "sleep"
  /\ AfterSleep
  /\ files' = [files EXCEPT !.allqueries = <<>>, !.qrylog = <<>>]
  /\ hist' = [hist EXCEPT !.backoffs = @ + 1]
  /\ UNCHANGED <<options, setupv, queries_generated, dut, iterv, calm, build>>

\* a recovery that starts the count of statements again
SleepResetsCounter ==
  /\ pc = "sleep"
  /\ AfterSleep
  /\ queries_generated' = 0
  /\ hist' = [hist EXCEPT !.backoffs = @ + 1]
  /\ UNCHANGED <<options, setupv, dut, iterv, calm, files, build>>

\* lines 237-241: sleep_for(milliseconds(1000)) returns, the loops restart
Sleep ==
  /\ pc = "sleep"
  /\ AfterSleep
  /\ hist' = [hist EXCEPT !.backoffs = @ + 1]
  /\ UNCHANGED <<options, setupv, queries_generated, dut, iterv, calm,
                 files, build>>

\* a handler that exits without the report
SigintNoReport ==
  /\ pc # "exited"
  /\ handler
  /\ ~calm
  /\ Exit(1, "sigint")
  /\ UNCHANGED <<options, setupv, queries_generated, dut, iterv, hist, calm,
                 files, build>>

\* lines 52-57, 140: SIGINT arrives while cerr_log_handler is installed
Sigint ==
  /\ pc # "exited"
  /\ handler
  /\ ~calm
  /\ hist' = [hist EXCEPT !.reports = IF global_cerr_logger THEN @ + 1 ELSE @]
  /\ Exit(1, "sigint")
  /\ UNCHANGED <<options, setupv, queries_generated, dut, iterv, calm,
                 files, build>>

\* the target and the loggers work from now on and no SIGINT is sent:
\* dut->test returns, every hook returns
Settle ==
  /\ pc # "exited"
  /\ ~calm
  /\ calm' = TRUE
  /\ UNCHANGED <<pc, exitv, options, setupv, queries_generated, dut, iterv,
                 hist,
                 files, build>>

Next ==
  \/ ParseOptions
  \/ SchemaLoad
  \/ SchemaFail
  \/ Setup
  \/ SetupFail
  \/ DryFactory
  \/ DryOut
  \/ DryGenerated
  \/ DryGeneratedThrows
  \/ DryCount
  \/ DutMake
  \/ DutFail
  \/ Check
  \/ Factory
  \/ Generated
  \/ GeneratedThrows
  \/ GeneratedDone
  \/ Render
  \/ TestOk
  \/ TestFails
  \/ TestBroken
  \/ Executed
  \/ ExecutedThrows
  \/ LogExecuted
  \/ ErrorHook
  \/ ErrorHookThrows
  \/ Rethrow
  \/ Sleep
  \/ Sigint
  \/ Settle

Spec == Init /\ [][Next]_vars

\* main is one thread that is never descheduled for ever; dut->test and
\* sleep_for return. SIGINT and Settle are the environment's steps and are
\* not forced.
Main ==
  \/ ParseOptions \/ SchemaLoad \/ SchemaFail \/ Setup \/ SetupFail
  \/ DryFactory \/ DryOut \/ DryGenerated \/ DryGeneratedThrows \/ DryCount
  \/ DutMake \/ DutFail \/ Check \/ Factory
  \/ Generated \/ GeneratedThrows \/ GeneratedDone \/ Render
  \/ TestOk \/ TestFails \/ TestBroken
  \/ Executed \/ ExecutedThrows \/ LogExecuted
  \/ ErrorHook \/ ErrorHookThrows \/ Rethrow \/ Sleep

FairSpec == Spec /\ WF_vars(Main)

\* ---------------------------------------------------------------------
\* The construction inside statement_factory: recursive descent with a
\* depth budget, backtracking and nested scopes. build.stack holds the open
\* productions, the innermost last; build.chain holds the nested scopes
\* entered on top of the top-level scope, each named by the alias it binds.
\* ---------------------------------------------------------------------

\* the grammar alternatives of a node: one terminal, two that have children
Alts == {"literal", "combinator", "subquery"}

\* children of an alternative
Arity(a) == IF a = "combinator" THEN 2 ELSE IF a = "subquery" THEN 1 ELSE 0

\* alternatives a node at depth d may take: beyond the maximum only terminals
Eligible(d, max) == IF d > max THEN {"literal"} ELSE Alts

\* a production just opened at depth d: no alternative chosen yet
NewFrame(d) == [d |-> d, alt |-> "none", left |-> 0, tried |-> {}]

Constructing == pc \in {"factory", "dry_factory"} /\ build.stack # <<>>
Top == build.stack[Len(build.stack)]
Front(q) == SubSeq(q, 1, Len(q) - 1)

\* what the rest of main does not see of a construction step
BuildFrame ==
  UNCHANGED <<pc, exitv, options, setupv, queries_generated, dut, iterv,
              calm, hist, files>>

\* the innermost open production takes an alternative it has not tried: a
\* terminal completes it, a subquery enters a nested scope and binds its alias
ChooseAlt ==
  /\ Constructing
  /\ Top.alt = "none"
  /\ \E a \in Eligible(Top.d, build.maxdepth) \ Top.tried :
       IF Arity(a) = 0
         THEN build' = [build EXCEPT !.stack = Front(@)]
         ELSE build' = [build EXCEPT
                 !.stack[Len(build.stack)] =
                    [@ EXCEPT !.alt = a, !.left = Arity(a)],
                 !.chain = IF a = "subquery" THEN Append(@, Top.d) ELSE @]
  /\ BuildFrame

\* the innermost open production constructs its next child, one level deeper
Descend ==
  /\ Constructing
  /\ Top.alt # "none"
  /\ Top.left > 0
  /\ build' = [build EXCEPT
        !.stack = Append([@ EXCEPT ![Len(@)].left = @ - 1], NewFrame(Top.d + 1)),
        !.deepest = IF Top.d + 1 > @ THEN Top.d + 1 ELSE @]
  /\ BuildFrame

\* the innermost open production has all its children: it returns, and the
\* nested scope it entered is released
Complete ==
  /\ Constructing
  /\ Top.alt # "none"
  /\ Top.left = 0
  /\ build' = [build EXCEPT
        !.stack = Front(@),
        !.chain = IF Top.alt = "subquery" THEN Front(@) ELSE @]
  /\ BuildFrame

\* a failure that leaves the alternative untried, to be chosen again
FailPartwayForgets ==
  /\ Constructing
  /\ Top.alt # "none"
  /\ build' = [build EXCEPT
        !.stack[Len(build.stack)] = [@ EXCEPT !.alt = "none", !.left = 0],
        !.chain = IF Top.alt = "subquery" THEN Front(@) ELSE @,
        !.aborted = @ \/ Top.alt = "subquery"]
  /\ BuildFrame

\* a failure that does not release the nested scope
FailPartwayLeaks ==
  /\ Constructing
  /\ Top.alt # "none"
  /\ build' = [build EXCEPT
        !.stack[Len(build.stack)] =
           [@ EXCEPT !.alt = "none", !.left = 0, !.tried = @ \cup {Top.alt}],
        !.aborted = @ \/ Top.alt = "subquery"]
  /\ BuildFrame

\* the alternative of the innermost open production cannot be completed (no
\* candidate in scope): its nested scope is released and the node
\* backtracks to an alternative it has not tried, at last to the literal
FailPartway ==
  /\ Constructing
  /\ Top.alt # "none"
  /\ build' = [build EXCEPT
        !.stack[Len(build.stack)] =
           [@ EXCEPT !.alt = "none", !.left = 0, !.tried = @ \cup {Top.alt}],
        !.chain = IF Top.alt = "subquery" THEN Front(@) ELSE @,
        !.aborted = @ \/ Top.alt = "subquery"]
  /\ BuildFrame

\* main has just entered statement_factory(&scope), in the dry-run loop or
\* in the execute loop, with no ceiling and an environment without faults;
\* the root production is open and the maximum depth is any of 0..MaxDepth
FactoryInit ==
  /\ options \in {o \in OptionSets :
        /\ ~o.help /\ ~o.badseed /\ ~o.verbose /\ ~o.dump
        /\ o.maxq = NoCeiling}
  /\ pc = IF options.dryrun THEN "dry_factory" ELSE "factory"
  /\ schema = "loaded"
  /\ scope = "filled"
  /\ queries_generated = 0
  /\ loggers = LoggersOf(options)
  /\ global_cerr_logger = FALSE
  /\ handler = FALSE
  /\ dut = IF options.dryrun THEN 0 ELSE 1
  /\ gen = 0
  /\ li = 0
  /\ exc = "none"
  /\ notified = NoNotes
  /\ exit_status = Running
  /\ exit_cause = [why |-> "none", at |-> "none"]
  /\ calm = TRUE
  /\ hist = [Hist0 EXCEPT !.dutmade = IF options.dryrun THEN 0 ELSE 1]
  /\ starttime = 0
  /\ tested = 0
  /\ files = [NoFiles EXCEPT !.open = ~options.dryrun]
  /\ \E m \in 0..MaxDepth :
       build = [Idle EXCEPT !.maxdepth = m, !.stack = <<NewFrame(0)>>]

\* the construction, the return of statement_factory, and what main does
\* with the statement up to its rendering
FactoryNext ==
  \/ ChooseAlt
  \/ Descend
  \/ Complete
  \/ FailPartway
  \/ Factory
  \/ Generated
  \/ GeneratedDone
  \/ Render
  \/ DryFactory
  \/ DryOut

FactorySpec == FactoryInit /\ [][FactoryNext]_vars /\ WF_vars(FactoryNext)

\* ---------------------------------------------------------------------
\* Properties
\* ---------------------------------------------------------------------

ExecuteMode == ~options.help /\ ~options.dryrun
Ceiling == options.maxq \in 0..MaxQueries

\* the environment has no fault left to inject and no SIGINT to deliver
Calm == calm

\* every logger's executed hook has been called for the current statement
ExecutedDelivered == pc = "executed" /\ notified.executed = AllLoggers

\* C1 (statement ceiling): in execute mode with --max-queries=N, N >= 0,
\* dut->test is never called more than N times, and the exit taken at the
\* ceiling test is return 0 after exactly N calls of dut->test; with a
\* target that never fails all N calls returned.
C1_StatementCeiling ==
  (ExecuteMode /\ Ceiling) =>
    /\ hist.tests <= options.maxq
    /\ (pc = "exited" /\ exit_cause.why = "ceiling") =>
          /\ exit_status = 0
          /\ hist.tests = options.maxq
          /\ hist.built = options.maxq
          /\ (hist.failed = 0 /\ hist.raised = 0) => hist.okays = options.maxq
    /\ (pc = "exited"
          /\ exit_cause.why \notin {"schema", "option", "dut", "logger", "sigint"})
          => exit_cause.why = "ceiling"

\* C1 witness: the largest ceiling, every call succeeded, exit at the ceiling
C1_Witness ==
  /\ ExecuteMode
  /\ options.maxq = MaxQueries
  /\ pc = "exited"
  /\ exit_cause.why = "ceiling"
  /\ exit_status = 0
  /\ hist.okays = MaxQueries

\* a dut::broken has been raised, no ceiling is set and nothing fails later
Recovering ==
  /\ ExecuteMode
  /\ ~Ceiling
  /\ Calm
  /\ exc = "broken"
  /\ pc \in {"error", "sleep"}

\* C2 (run loop recovery): after a dut::broken that is followed by no other
\* fault, with no ceiling, main reaches the recovery sleep, then the
\* statement factory again, never exits, and executed notifications are
\* delivered to all loggers again and again.
C2_RunLoopRecovery ==
  /\ [](Recovering => <>(pc = "sleep"))
  /\ [](Recovering => <>(pc = "factory"))
  /\ [](Recovering => [](pc # "exited"))
  /\ [](Recovering => []<>ExecutedDelivered)

\* C2 witness: an execute succeeded and was notified after a recovery sleep
C2_Witness ==
  /\ ExecuteMode
  /\ ~Ceiling
  /\ Calm
  /\ hist.raised >= 1
  /\ hist.backoffs = hist.raised
  /\ ExecutedDelivered

\* C3 (session re-established): dut->test is never in flight on a dut object
\* that has reported dut::broken.
C3_FreshSessionAfterBroken == pc = "test" => dut \notin hist.brokenOn

\* main is between the throw of a dut::broken and the end of its sleep
InRetryPath == pc \in {"error", "sleep"} /\ exc = "broken"

\* C4 (unbounded retry): every dut::broken raised so far has been followed by
\* one backoff and a return to the loop, however many were raised in a row;
\* the process ends inside the retry path only by SIGINT; and unless a
\* SIGINT can arrive, the retry path always leads back to the ceiling test.
C4_UnboundedRetry ==
  /\ [](pc \notin {"error", "sleep", "exited"} => hist.backoffs = hist.raised)
  /\ [](InRetryPath => hist.backoffs + 1 = hist.raised)
  /\ []((pc = "exited" /\ hist.backoffs # hist.raised)
          => exit_cause.why = "sigint")
  /\ []((InRetryPath /\ (calm \/ ~handler)) => <>(pc = "check"))

\* C4 witness: MaxBroken failures in a row, no success in between, and main
\* is generating again
C4_Witness ==
  /\ pc = "factory"
  /\ hist.raised = MaxBroken
  /\ hist.backoffs = MaxBroken
  /\ hist.okays = 0
  /\ hist.failed = 0

\* what the classification has established at each position
ClassInv ==
  /\ pc = "executed" =>
       /\ exc = "none"
       /\ notified.error = {}
       /\ li > Len(loggers) => notified.executed = AllLoggers
  /\ pc = "error" =>
       /\ exc \in {"failure", "broken"}
       /\ notified.executed = {}
       /\ li > Len(loggers) => notified.error = AllLoggers
  /\ pc = "sleep" => exc = "broken"

\* a step taken while a statement-level failure is being handled
StatementFailureStep ==
  (pc = "error" /\ exc = "failure") =>
     \/ pc' = "error"
     \/ pc' = "check" /\ notified.error = AllLoggers
     \/ pc' = "exited" /\ exit_cause'.why = "sigint"

\* C5 (classification): when dut->test returns, the executed hook of every
\* logger is called and no error hook; when it throws a statement-level
\* failure, the error hook of every logger is called and main goes back to
\* the ceiling test, never to the sleep and never to an exit of its own.
C5_Classification == []ClassInv /\ [][StatementFailureStep]_vars

\* C5 witness: a statement failed and one succeeded, and main is generating
\* again without any sleep
C5_Witness ==
  /\ pc = "factory"
  /\ hist.failed >= 1
  /\ hist.okays >= 1
  /\ hist.raised = 0
  /\ hist.backoffs = 0

\* C6 (observer failure never aborts): in execute mode the process never
\* ends because a generated, executed or error hook of a logger threw.
C6_ObserverFailureNeverAborts == ExecuteMode => exit_cause.why # "logger"

\* the three hooks of a logger
Hooks == {"generated", "executed", "error"}

\* C7 (observer isolation): in execute mode, when a hook threw for the
\* current statement and the notification of that event is over, every
\* logger of the set has had that hook called for the statement.
C7_ObserverIsolation ==
  (ExecuteMode /\ exit_cause.why = "logger") =>
    \A h \in Hooks : notified[h] # {} => notified[h] = AllLoggers

\* positions at which a statement is being constructed, rendered or executed
MidStatement == {"factory", "dry_factory", "render", "dry_out", "test"}

\* C8 as claimed (cooperative cancellation): a SIGINT never ends the process
\* while a statement is being constructed, rendered or executed.
C8_CooperativeCancellation ==
  exit_cause.why = "sigint" => exit_cause.at \notin MidStatement

\* C8 as amended (asynchronous cancellation): a SIGINT ends the process at
\* whatever position main is in once Setup has installed the handler; the
\* handler emits the final report, exactly once, and the status is 1; the
\* report is emitted at no other time but the ceiling exit of execute mode.
C8_AsynchronousCancellation ==
  /\ exit_cause.why = "sigint" =>
       /\ exit_status = 1
       /\ hist.reports = 1
       /\ options.verbose
       /\ exit_cause.at \notin {"options", "schema", "setup", "exited"}
  /\ hist.reports <= 1
  /\ hist.reports = 1 =>
       /\ pc = "exited"
       /\ exit_cause.why \in {"sigint", "ceiling"}
       /\ exit_cause.why = "ceiling" => (ExecuteMode /\ options.verbose)

\* C8 witness: the handler ended the process during statement_factory
C8_Witness ==
  /\ exit_cause.why = "sigint"
  /\ exit_cause.at = "factory"
  /\ hist.reports = 1

\* C9 (dry-run): with --dry-run no dut object exists, dut->test is never
\* called and no executed or error hook is ever called.
C9_DryRunNeverExecutes ==
  options.dryrun =>
    /\ dut = 0
    /\ hist.dutmade = 0
    /\ hist.tests = 0
    /\ hist.okays = 0
    /\ hist.outcomes = 0
    /\ notified.executed = {}
    /\ notified.error = {}
    /\ pc \notin {"dut", "check", "factory", "generated", "render", "test",
                  "executed", "error", "sleep"}

\* C9 witness: the dry-run loop has built two statements and notified all
\* loggers of the second
C9_Witness ==
  /\ options.dryrun
  /\ pc = "dry_generated"
  /\ hist.built >= 2
  /\ notified.generated = AllLoggers

\* the schema constructor has thrown
SchemaFailed ==
  /\ schema = "none"
  /\ pc \notin {"options", "schema"}
  /\ exit_cause.why # "help"

\* C10 (schema failure is fatal): when the schema constructor throws, the
\* process has ended with a non-zero status, and no statement was built, no
\* logger hook called, no dut made and dut->test never called.
C10_SchemaFailureFatal ==
  SchemaFailed =>
    /\ pc = "exited"
    /\ exit_status \notin {0, Running}
    /\ hist.built = 0
    /\ hist.tests = 0
    /\ hist.outcomes = 0
    /\ notified = NoNotes
    /\ loggers = <<>>
    /\ dut = 0

\* C10 witness: the schema constructor threw and main returned 1
C10_Witness ==
  /\ pc = "exited"
  /\ exit_cause.why = "schema"
  /\ exit_status = 1
  /\ schema = "none"

Tracked == gen # 0 /\ hist.built <= MaxQueries

\* ssquery.log holds an elapsed time measured for the current statement
TimingRecorded ==
  \E i \in DOMAIN files.qrylog :
    files.qrylog[i].n = hist.built /\ files.qrylog[i].timing = hist.built

\* the iteration of the current statement is over: its outcome is classified
\* and notified
OutcomeHandled == pc \in {"check", "sleep"} /\ Tracked /\ tested = 1

\* C12 as claimed (timing of every outcome): once the outcome of a submitted
\* statement has been handled, success or failure, an elapsed time measured
\* around its dut->test call is on record.
C12_TimingForEveryOutcome == OutcomeHandled => TimingRecorded

\* C12 as amended (timing of successes): the clock is read before every
\* dut->test call, every entry of ssquery.log carries the elapsed time of
\* its own statement, and once the outcome is handled the elapsed time is on
\* record exactly when dut->test returned; for dut::failure and dut::broken
\* no elapsed time is recorded.
C12_TimingOnSuccessOnly ==
  /\ pc \in {"test", "executed", "error", "sleep"} => starttime = hist.built
  /\ \A i \in DOMAIN files.qrylog : files.qrylog[i].timing = files.qrylog[i].n
  /\ OutcomeHandled => (TimingRecorded <=> exc = "none")
  /\ (pc \in {"error", "sleep"} /\ Tracked) => ~TimingRecorded

\* C12 witness: a statement failed after another was logged with its
\* timing, and the failure left no timing
C12_Witness ==
  /\ OutcomeHandled
  /\ exc = "failure"
  /\ ~TimingRecorded
  /\ Len(files.qrylog) >= 1

\* C13 (termination of construction): for every maximum depth 0..MaxDepth
\* no open production is deeper than the maximum plus one, every
\* construction ends, statement_factory returns and main reaches the
\* rendering of the statement and, in execute mode, its dut->test call.
C13_ConstructionTerminates ==
  /\ [](\A i \in DOMAIN build.stack :
          /\ build.stack[i].d = i - 1
          /\ build.stack[i].d <= build.maxdepth + 1
          /\ build.stack[i].tried \subseteq (Alts \ {"literal"}))
  /\ <>(build.stack = <<>>)
  /\ <>(pc \in {"test", "dry_generated"})

\* C13 witness: a construction with the largest maximum depth went one level
\* beyond it, backtracked, and its statement is handed to dut->test
C13_Witness ==
  /\ pc = "test"
  /\ build.maxdepth = MaxDepth
  /\ build.deepest = MaxDepth + 1
  /\ build.aborted
  /\ build.stack = <<>>

\* the aliases visible on top of the top-level scope
NestedVisible == {build.chain[i] : i \in DOMAIN build.chain}

\* the open productions that entered a nested scope
OpenSubqueries ==
  {build.stack[i].d : i \in {j \in DOMAIN build.stack :
                                build.stack[j].alt = "subquery"}}

\* C14 (scope nesting): the aliases visible on top of the top-level scope
\* are those of the open subquery productions, one nested scope each, also
\* after a production failed partway; so when no production is open only
\* the top-level scope, filled from the schema, is visible.
C14_ScopeNesting ==
  /\ scope = "filled"
  /\ NestedVisible = OpenSubqueries
  /\ Len(build.chain) = Cardinality(OpenSubqueries)
  /\ build.stack = <<>> => build.chain = <<>>

\* C14 witness: a subquery production failed partway, the construction is
\* over and the statement is being notified
C14_Witness ==
  /\ pc \in {"generated", "dry_out"}
  /\ build.aborted
  /\ build.deepest >= 2
  /\ build.chain = <<>>

\* the statement of this iteration is over: the next step of main is the
\* ceiling test and the generation of the next statement
StatementOver == pc = "check" /\ gen # 0

\* every logger had its executed hook called and none its error hook
OnlyExecuted == notified.executed = AllLoggers /\ notified.error = {}

\* every logger had its error hook called and none its executed hook
OnlyError == notified.error = AllLoggers /\ notified.executed = {}

\* C15 (per-statement event order): while dut->test runs on a statement
\* every logger has had its generated hook called, the statement is in its
\* first and only dut->test call and no outcome hook was called for it; an
\* outcome hook is called only after that call, never of both kinds; and
\* when the statement is over, before the next one is generated, every
\* logger has had exactly one kind of outcome hook called.
C15_EventOrder ==
  /\ tested \in {0, 1}
  /\ pc \in {"factory", "generated", "render"} =>
       tested = 0 /\ notified.executed = {} /\ notified.error = {}
  /\ pc = "test" =>
       /\ tested = 1
       /\ notified = [NoNotes EXCEPT !.generated = AllLoggers]
  /\ (notified.executed # {} \/ notified.error # {}) =>
       /\ tested = 1
       /\ notified.generated = AllLoggers
       /\ notified.executed = {} \/ notified.error = {}
  /\ StatementOver => tested = 1 /\ (OnlyExecuted \/ OnlyError)
  /\ pc = "sleep" => tested = 1 /\ OnlyError

\* C15 witness: with two loggers, a statement that failed is over after an
\* earlier one that succeeded
C15_Witness ==
  /\ StatementOver
  /\ OnlyError
  /\ Len(loggers) >= 2
  /\ hist.okays >= 1
  /\ hist.built >= 2

\* main is in the execute loop of a run with a ceiling
CeilingRun == ExecuteMode /\ Ceiling /\ hist.dutmade >= 1

\* C16 (ceiling under failures): in an execute-mode run with ceiling N,
\* whatever dut->test does, at most N statements are generated and at most N
\* dut->test calls are made; queries_generated never goes down, so neither a
\* statement failure nor a recovery gives a statement back; the run ends,
\* and unless a logger exception or SIGINT ended it, it ends at the ceiling
\* test with status 0 after exactly N dut->test calls.
C16_CeilingUnderFailures ==
  /\ [](CeilingRun =>
          /\ hist.built <= options.maxq
          /\ hist.tests <= hist.built
          /\ queries_generated <= options.maxq + 1)
  /\ [][queries_generated' >= queries_generated]_vars
  /\ [][(pc \in {"error", "sleep"}) =>
          queries_generated' = queries_generated]_vars
  /\ []((CeilingRun /\ pc = "exited"
           /\ exit_cause.why \notin {"logger", "sigint"}) =>
          /\ exit_status = 0
          /\ exit_cause = [why |-> "ceiling", at |-> "check"]
          /\ hist.tests = options.maxq
          /\ queries_generated = options.maxq + 1)
  /\ (CeilingRun ~> pc = "exited")

\* C16 witness: a run with the largest ceiling, in which one statement
\* failed and another broke the session, has ended at the ceiling
C16_Witness ==
  /\ CeilingRun
  /\ options.maxq = MaxQueries
  /\ pc = "exited"
  /\ exit_status = 0
  /\ hist.failed >= 1
  /\ hist.backoffs >= 1
  /\ hist.tests = MaxQueries

\* C17 (ceiling equivalence of the two modes): in either mode, a run with
\* ceiling N that ends at the ceiling has generated exactly N statements.
C17_CeilingEquivalence ==
  (Ceiling /\ pc = "exited" /\ exit_cause.why = "ceiling") =>
     hist.built = options.maxq

\* the dut::broken leaves the inner loop for the catch of the outer loop
Propagates == pc # "sleep" /\ pc' = "sleep"

\* C18 (BrokenSession reported before recovery): in the catch of a
\* dut::broken the error hooks are called in the order of the loggers; the
\* exception leaves the inner loop only when the hook of every logger was
\* called, also if one of them threw, and while main sleeps every logger has
\* had its error hook called for the statement that broke the session.
C18_BrokenReportedBeforeRecovery ==
  /\ [](pc = "error" =>
          /\ exc \in {"failure", "broken"}
          /\ notified.error = {l \in AllLoggers : l < li})
  /\ [](pc = "sleep" =>
          /\ exc = "broken"
          /\ gen # 0
          /\ notified.error = AllLoggers)
  /\ [][Propagates =>
          /\ pc = "error"
          /\ exc = "broken"
          /\ notified.error = AllLoggers
          /\ notified' = notified
          /\ hist'.backoffs = hist.backoffs]_vars

\* C18 witness: main sleeps after a dut::broken that two loggers were told
\* of, one of which threw in its error hook
C18_Witness ==
  /\ pc = "sleep"
  /\ Len(loggers) >= 2
  /\ notified.error = AllLoggers
  /\ hist.diags >= 1

\* the statements of a file, in the order of its entries
Statements(file) == [i \in DOMAIN file |-> file[i].n]

\* a is b with some of its elements left out
RECURSIVE IsSubseq(_, _)
IsSubseq(a, b) ==
  IF a = <<>> THEN TRUE
  ELSE IF b = <<>> THEN FALSE
  ELSE IF Head(a) = Head(b) THEN IsSubseq(Tail(a), Tail(b))
  ELSE IsSubseq(a, Tail(b))

Range(q) == {q[i] : i \in DOMAIN q}

\* C19 (query-log invariants): while dut->test runs, ssquery.current holds
\* exactly the statement submitted, which is the last entry of
\* allqueries.log and not in ssquery.log; ssquery.log gets an entry only by
\* the append that follows a dut->test call that returned and its executed
\* hooks; the statements of ssquery.log are a subsequence of those of
\* allqueries.log and none of them is a statement whose dut->test threw.
C19_QueryLogs ==
  /\ [](pc = "test" =>
          /\ files.open
          /\ files.qrycur = <<Entry>>
          /\ Tracked =>
               /\ files.allqueries # <<>>
               /\ files.allqueries[Len(files.allqueries)] = Entry
               /\ Entry.n \notin Range(Statements(files.qrylog)))
  /\ [](IsSubseq(Statements(files.qrylog), Statements(files.allqueries)))
  /\ [](Range(Statements(files.qrylog)) \cap hist.failedOn = {})
  /\ [][files'.qrylog # files.qrylog =>
          /\ pc = "executed"
          /\ exc = "none"
          /\ tested = 1
          /\ notified.executed = AllLoggers
          /\ Statements(files'.qrylog) =
               Append(Statements(files.qrylog), Entry.n)
          /\ files'.allqueries = files.allqueries]_vars

\* C19 witness: of two statements in allqueries.log the first failed and
\* the second is in ssquery.log
C19_Witness ==
  /\ Statements(files.allqueries) = <<1, 2>>
  /\ Statements(files.qrylog) = <<2>>
  /\ hist.failedOn = {1}
  /\ files.qrycur = <<[n |-> 2]>>

\* the positions of main inside the two loops of execute mode
RunLoop ==
  {"check", "factory", "generated", "render", "test", "executed", "error",
   "sleep"}

\* main is past the error hooks of a dut::broken: the re-throw, the catch of
\* the outer loop and the sleep are what it does next
Recreating == (pc = "error" /\ li > Len(loggers) /\ exc = "broken") \/ pc = "sleep"

\* C20 (frame of recovery): the re-throw of a dut::broken, its catch and
\* the sleep change neither the schema, the top-level scope, the loggers,
\* queries_generated nor the two open log files; the schema is written only
\* by its construction before the loops, and in the loops it is loaded, the
\* scope is filled and the log files are open.
C20_RecoveryFrame ==
  /\ [][Recreating =>
          /\ UNCHANGED <<schema, scope, loggers, queries_generated, files>>
          /\ UNCHANGED <<options, global_cerr_logger, handler>>]_vars
  /\ [][schema' # schema => pc = "schema" /\ schema' = "loaded"]_vars
  /\ [][(pc \in RunLoop) =>
          UNCHANGED <<schema, scope, loggers>> /\ files'.open = files.open]_vars
  /\ [](pc \in RunLoop =>
          /\ schema = "loaded"
          /\ scope = "filled"
          /\ loggers = LoggersOf(options)
          /\ files.open)

\* C20 witness: main is back at the top of the loops after a recovery, with
\* both log files as the two statements before it left them
C20_Witness ==
  /\ pc = "check"
  /\ exc = "broken"
  /\ hist.backoffs >= 1
  /\ queries_generated = 2
  /\ Len(files.allqueries) = 2
  /\ Len(files.qrylog) = 1
====
